---- MODULE Spec2Model ----
(***************************************************************************)
(* Monte Carlo M/M/c simulation engine (src/src/lib/simulation.ts, and the *)
(* earlier inline variant of runSimulation in src/unnamed/part_000).       *)
(*                                                                         *)
(* Times live on an integer grid.  Summary values that the code obtains by *)
(* division (averages, utilization, rates) are exact fractions [n, d];     *)
(* d = 0 encodes the non-finite IEEE values: n > 0 is Infinity, n < 0 is   *)
(* -Infinity and n = 0 is NaN.  Rounding of doubles is not modelled.       *)
(***************************************************************************)
EXTENDS Integers, Sequences, FiniteSets, TLC

\* ------------------------------------------------------------------ bounds
MaxServers == 2
MaxDuration == 4
MaxDraw == 2
MaxRows == 3
MaxIAT == 1
MaxST == 2
MaxDataLines == 2

\* Valid rates (arrivalRate > 0, serviceRate > 0).
Rates == {1, 2}

\* --------------------------------------------------------- JS number model
Abs(x) == IF x < 0 THEN -x ELSE x

RECURSIVE Gcd(_, _)
Gcd(a, b) == IF b = 0 THEN a ELSE Gcd(b, a % b)

Sign(x) == IF x > 0 THEN 1 ELSE IF x < 0 THEN -1 ELSE 0

\* The fraction n/d in canonical form (d >= 0, lowest terms).
Frac(n, d) ==
  IF d = 0 THEN [n |-> Sign(n), d |-> 0]
  ELSE LET s == Sign(d)
           g == Gcd(Abs(n), Abs(d))
       IN  [n |-> (s * n) \div g, d |-> (s * d) \div g]

Num(x) == [n |-> x, d |-> 1]
NaN == [n |-> 0, d |-> 0]
IsNaN(a) == a.n = 0 /\ a.d = 0

\* a / b on doubles: x/0 is +-Infinity, 0/0 and Inf/Inf are NaN.
FDiv(a, b) == Frac(a.n * b.d, a.d * b.n)

\* a * b on doubles: 0 * Infinity is NaN.
FMul(a, b) == Frac(a.n * b.n, a.d * b.d)

\* a > b on doubles: false as soon as one side is NaN.
FGt(a, b) ==
  /\ ~IsNaN(a)
  /\ ~IsNaN(b)
  /\ IF a.d = 0 /\ b.d = 0 THEN a.n > b.n
     ELSE IF a.d = 0 THEN a.n > 0
     ELSE IF b.d = 0 THEN b.n < 0
     ELSE a.n * b.d > b.n * a.d

FLeq(a, b) ==
  /\ ~IsNaN(a)
  /\ ~IsNaN(b)
  /\ ~FGt(a, b)

\* Math.min(a, b): NaN if either argument is NaN.
FMin(a, b) ==
  IF IsNaN(a) \/ IsNaN(b) THEN NaN
  ELSE IF FGt(a, b) THEN b ELSE a

\* ------------------------------------------------------- array primitives
\* Line 74 / 152 without Math.max: service starts on arrival.
ArrivalOnly(a, b) == a

\* Math.max(a, b) on grid times.
MathMax(a, b) == IF a >= b THEN a ELSE b

\* Math.max(...arr) where line 70 / 149 has Math.min(...arr).
LargestOf(arr) ==
  CHOOSE m \in {arr[k] : k \in 1..Len(arr)} :
    \A k \in 1..Len(arr) : m >= arr[k]

\* Math.min(...arr) for a non-empty array.
MathMin(arr) ==
  CHOOSE m \in {arr[k] : k \in 1..Len(arr)} :
    \A k \in 1..Len(arr) : m <= arr[k]

\* Math.min(...arr) where line 199 has Math.max(...arr).
SmallestOf(arr) == MathMin(arr)

\* Math.max(...arr) for a non-empty array.
MathMaxOf(arr) ==
  CHOOSE m \in {arr[k] : k \in 1..Len(arr)} :
    \A k \in 1..Len(arr) : m >= arr[k]

\* arr.lastIndexOf(v): 0-based position of the last occurrence, -1 if absent.
lastIndexOf(arr, v) ==
  IF \E k \in 1..Len(arr) : arr[k] = v
  THEN (CHOOSE k \in 1..Len(arr) :
          /\ arr[k] = v
          /\ \A j \in (k + 1)..Len(arr) : arr[j] # v) - 1
  ELSE -1

\* arr.indexOf(v): 0-based position of the first occurrence, -1 if absent.
indexOf(arr, v) ==
  IF \E k \in 1..Len(arr) : arr[k] = v
  THEN (CHOOSE k \in 1..Len(arr) :
          /\ arr[k] = v
          /\ \A j \in 1..(k - 1) : arr[j] # v) - 1
  ELSE -1

\* arr.reduce((s, x) => s + f(x), 0) for the three sums of the code.
RECURSIVE SumWait(_)
SumWait(cs) ==
  IF cs = <<>> THEN 0 ELSE cs[1].waitTime + SumWait(Tail(cs))

RECURSIVE SumService(_)
SumService(cs) ==
  IF cs = <<>> THEN 0 ELSE cs[1].serviceTime + SumService(Tail(cs))

RECURSIVE SumIAT(_)
SumIAT(rows) ==
  IF rows = <<>> THEN 0 ELSE rows[1].interArrivalTime + SumIAT(Tail(rows))

\* new Array(numServers).fill(0)
FilledWithCount(numServers) == [k \in 1..numServers |-> numServers]

ZeroArray(numServers) == [k \in 1..numServers |-> 0]

\* ------------------------------------------------------------- the sampler
\* Math.random() is a draw R from UniformDraws; -ln(R) is 2 * R grid units
\* (strictly positive and finite: the draw R = 0 is left out).
UniformDraws == 1..MaxDraw

exponentialRandom(rate, R) ==
  [random |-> R, value |-> (2 * R) \div rate]

\* ------------------------------------------------------- loop-body pieces
\* Lines 61 / 146: the first entity's inter-arrival time is forced to 0.
FirstNotForced(first, value) == value

FirstIsZero(first, value) == IF first THEN 0 ELSE value

\* Line 56 with <= in place of <.
WhileConditionInclusive(now, duration) == now <= duration

\* Line 56: the condition of the while loop.
WhileCondition(now, duration) == now < duration

\* Line 144: the condition of the for loop, with the last row left out.
ForConditionShort(row, ds) == row < Len(ds) - 1

\* Line 144: the condition of the for loop.
ForCondition(row, ds) == row < Len(ds)

\* Line 64: the horizon test that discards the entity and leaves the loop.
StrictlyBeyondHorizon(now, duration) == now > duration

BeyondHorizon(now, duration) == now >= duration

\* Line 159: the id of the entity built from row i (0-based).
DatasetIdZeroBased(row) == row

DatasetId(row) == row + 1

\* Lines 124 / 209: Math.min(serverUtilization, 100).
NoClamp(serverUtilization) == serverUtilization

Clamp(serverUtilization) == FMin(serverUtilization, Num(100))

\* ------------------------------------------------------------ the stepper
\* The stepper with startServiceTime taken from the server alone.
StepperNoMax(finish, now, serviceTime) ==
  LET earliestFinish == MathMin(finish)
      serverIndex == indexOf(finish, earliestFinish)
      startServiceTime == finish[serverIndex + 1]
      waitTime == startServiceTime - now
      endServiceTime == startServiceTime + serviceTime
  IN  [serverIndex |-> serverIndex,
       startServiceTime |-> startServiceTime,
       waitTime |-> waitTime,
       endServiceTime |-> endServiceTime,
       serverFinishTimes |-> [finish EXCEPT ![serverIndex + 1] = endServiceTime]]

\* The stepper with line 79 / 156 storing the length of the service.
StepperStoresService(finish, now, serviceTime) ==
  LET earliestFinish == MathMin(finish)
      serverIndex == indexOf(finish, earliestFinish)
      startServiceTime == MathMax(now, finish[serverIndex + 1])
      waitTime == startServiceTime - now
      endServiceTime == startServiceTime + serviceTime
  IN  [serverIndex |-> serverIndex,
       startServiceTime |-> startServiceTime,
       waitTime |-> waitTime,
       endServiceTime |-> endServiceTime,
       serverFinishTimes |-> [finish EXCEPT ![serverIndex + 1] = serviceTime]]

\* The stepper with line 79 / 156 storing the start of service.
StepperStoresStart(finish, now, serviceTime) ==
  LET earliestFinish == MathMin(finish)
      serverIndex == indexOf(finish, earliestFinish)
      startServiceTime == MathMax(now, finish[serverIndex + 1])
      waitTime == startServiceTime - now
      endServiceTime == startServiceTime + serviceTime
  IN  [serverIndex |-> serverIndex,
       startServiceTime |-> startServiceTime,
       waitTime |-> waitTime,
       endServiceTime |-> endServiceTime,
       serverFinishTimes |-> [finish EXCEPT ![serverIndex + 1] = startServiceTime]]

\* Lines 70-79 / 149-156: pick the earliest server, derive the timing fields
\* and the updated serverFinishTimes.
Stepper(finish, now, serviceTime) ==
  LET earliestFinish == MathMin(finish)
      serverIndex == indexOf(finish, earliestFinish)
      startServiceTime == MathMax(now, finish[serverIndex + 1])
      waitTime == startServiceTime - now
      endServiceTime == startServiceTime + serviceTime
  IN  [serverIndex |-> serverIndex,
       startServiceTime |-> startServiceTime,
       waitTime |-> waitTime,
       endServiceTime |-> endServiceTime,
       serverFinishTimes |-> [finish EXCEPT ![serverIndex + 1] = endServiceTime]]

\* ---------------------------------------------------------- the aggregator
\* Lines 186-196 left out: the means of lines 198 and 202 over no customers.
EmptyResultUnguarded ==
  [customers |-> <<>>,
   avgWaitTime |-> NaN,
   maxWaitTime |-> 0,
   avgQueueLength |-> NaN,
   serverUtilization |-> Num(0),
   totalCustomers |-> 0,
   customersServed |-> 0]

EmptyResult ==
  [customers |-> <<>>,
   avgWaitTime |-> Num(0),
   maxWaitTime |-> 0,
   avgQueueLength |-> Num(0),
   serverUtilization |-> Num(0),
   totalCustomers |-> 0,
   customersServed |-> 0]

WaitTimes(cs) == [k \in 1..Len(cs) |-> cs[k].waitTime]

computeResults(cs, numServers, duration, arrivalRate) ==
  LET totalCustomers == Len(cs)
  IN  IF totalCustomers = 0 THEN EmptyResult
      ELSE
        LET avgWaitTime == FDiv(Num(SumWait(cs)), Num(totalCustomers))
            maxWaitTime == MathMaxOf(WaitTimes(cs))
            totalServiceTime == SumService(cs)
            serverUtilization ==
              IF FGt(duration, Num(0))
              THEN FMul(FDiv(Num(totalServiceTime),
                             FMul(Num(numServers), duration)), Num(100))
              ELSE Num(0)
            avgQueueLength == FMul(arrivalRate, avgWaitTime)
        IN  [customers |-> cs,
             avgWaitTime |-> avgWaitTime,
             maxWaitTime |-> maxWaitTime,
             avgQueueLength |-> avgQueueLength,
             serverUtilization |-> Clamp(serverUtilization),
             totalCustomers |-> totalCustomers,
             customersServed |-> totalCustomers]

\* The inline aggregation of the earlier runSimulation (no duration guard).
computeResultsInline(cs, numServers, duration, arrivalRate) ==
  LET totalCustomers == Len(cs)
  IN  IF totalCustomers = 0 THEN EmptyResult
      ELSE
        LET avgWaitTime == FDiv(Num(SumWait(cs)), Num(totalCustomers))
            maxWaitTime == MathMaxOf(WaitTimes(cs))
            totalServiceTime == SumService(cs)
            serverUtilization ==
              FMul(FDiv(Num(totalServiceTime),
                        FMul(Num(numServers), duration)), Num(100))
            avgQueueLength == FMul(arrivalRate, avgWaitTime)
        IN  [customers |-> cs,
             avgWaitTime |-> avgWaitTime,
             maxWaitTime |-> maxWaitTime,
             avgQueueLength |-> avgQueueLength,
             serverUtilization |-> Clamp(serverUtilization),
             totalCustomers |-> totalCustomers,
             customersServed |-> totalCustomers]

\* ---------------------------------------------------------------- parseCSV
\* A string is the sequence of its characters.
Whitespace == {" ", "\t", "\n", "\r"}
Delimiters == {",", ";", "\t"}
Digits == <<"0", "1", "2", "3", "4", "5", "6", "7", "8", "9">>
UpperCase == <<"A", "I", "S", "T">>
LowerCase == <<"a", "i", "s", "t">>

RECURSIVE TrimStart(_)
TrimStart(s) ==
  IF s # <<>> /\ s[1] \in Whitespace THEN TrimStart(Tail(s)) ELSE s

RECURSIVE TrimEnd(_)
TrimEnd(s) ==
  IF s # <<>> /\ s[Len(s)] \in Whitespace
  THEN TrimEnd(SubSeq(s, 1, Len(s) - 1))
  ELSE s

\* String.prototype.trim
Trim(s) == TrimEnd(TrimStart(s))

\* s.split(/\r?\n/): cur is the piece being read.
RECURSIVE SplitLinesFrom(_, _)
SplitLinesFrom(rest, cur) ==
  IF rest = <<>> THEN <<cur>>
  ELSE IF rest[1] = "\n"
       THEN <<cur>> \o SplitLinesFrom(Tail(rest), <<>>)
  ELSE IF rest[1] = "\r" /\ Len(rest) >= 2 /\ rest[2] = "\n"
       THEN <<cur>> \o SplitLinesFrom(Tail(Tail(rest)), <<>>)
  ELSE SplitLinesFrom(Tail(rest), Append(cur, rest[1]))

SplitLines(s) == SplitLinesFrom(s, <<>>)

\* s.split(/[,;\t]/)
RECURSIVE SplitCellsFrom(_, _)
SplitCellsFrom(rest, cur) ==
  IF rest = <<>> THEN <<cur>>
  ELSE IF rest[1] \in Delimiters
       THEN <<cur>> \o SplitCellsFrom(Tail(rest), <<>>)
  ELSE SplitCellsFrom(Tail(rest), Append(cur, rest[1]))

SplitCells(s) == SplitCellsFrom(s, <<>>)

\* String.prototype.toLowerCase
LowerChar(c) ==
  IF \E k \in 1..Len(UpperCase) : UpperCase[k] = c
  THEN LowerCase[CHOOSE k \in 1..Len(UpperCase) : UpperCase[k] = c]
  ELSE c

toLowerCase(s) == [k \in 1..Len(s) |-> LowerChar(s[k])]

\* h.includes(needle)
includes(h, needle) ==
  \E k \in 0..(Len(h) - Len(needle)) :
    SubSeq(h, k + 1, k + Len(needle)) = needle

IsIatHeader(h) ==
  \/ includes(h, <<"i", "a", "t">>)
  \/ includes(h, <<"i", "n", "t", "e", "r", "_", "a", "r", "r", "i", "v", "a", "l">>)
  \/ includes(h, <<"i", "n", "t", "e", "r", "a", "r", "r", "i", "v", "a", "l">>)
  \/ includes(h, <<"i", "n", "t", "e", "r", "-", "a", "r", "r", "i", "v", "a", "l">>)

IsStHeader(h) ==
  \/ includes(h, <<"s", "e", "r", "v", "i", "c", "e">>)
  \/ includes(h, <<"s", "t">>)
  \/ includes(h, <<"d", "u", "r", "a", "t", "i", "o", "n">>)

\* headers.findLastIndex(P): 0-based index of the last match, -1 if none.
findLastIndex(matches) ==
  IF \E k \in 1..Len(matches) : matches[k]
  THEN (CHOOSE k \in 1..Len(matches) :
          /\ matches[k]
          /\ \A j \in (k + 1)..Len(matches) : ~matches[j]) - 1
  ELSE -1

\* headers.findIndex(P), given P's verdict on each element: 0-based index of
\* the first match, -1 if none.
findIndex(matches) ==
  IF \E k \in 1..Len(matches) : matches[k]
  THEN (CHOOSE k \in 1..Len(matches) :
          /\ matches[k]
          /\ \A j \in 1..(k - 1) : ~matches[j]) - 1
  ELSE -1

IsDigit(c) == \E k \in 1..Len(Digits) : Digits[k] = c
DigitValue(c) == (CHOOSE k \in 1..Len(Digits) : Digits[k] = c) - 1

\* Value of the longest run of digits at the head of s, continuing acc.
RECURSIVE DigitRun(_, _)
DigitRun(s, acc) ==
  IF s # <<>> /\ IsDigit(s[1])
  THEN DigitRun(Tail(s), 10 * acc + DigitValue(s[1]))
  ELSE acc

\* parseFloat on cells made of whitespace, a sign, digits and other text (no
\* fraction, no exponent): leading whitespace is skipped, the longest numeric
\* prefix is the value and what follows it is ignored; NaN without a digit.
parseFloat(s) ==
  LET t == TrimStart(s)
      signed == t # <<>> /\ t[1] \in {"-", "+"}
      body == IF signed THEN Tail(t) ELSE t
  IN  IF body = <<>> \/ ~IsDigit(body[1]) THEN NaN
      ELSE IF signed /\ t[1] = "-" THEN Num(-DigitRun(body, 0))
      ELSE Num(DigitRun(body, 0))

\* parseFloat(cols[col]): cols[col] is undefined beyond the row's last cell.
CellValue(cols, col) ==
  IF col + 1 <= Len(cols) THEN parseFloat(cols[col + 1]) ELSE NaN

\* Lines 111-119 with the two columns taken the other way round.
SelectColumnsSwapped(headerLine) == [iatCol |-> 1, stCol |-> 0]

\* Lines 111-119: the two selected columns (0-based).
SelectColumns(headerLine) ==
  LET headers == SplitCells(toLowerCase(headerLine))
      iatFound == findIndex([k \in 1..Len(headers) |-> IsIatHeader(headers[k])])
      stFound == findIndex([k \in 1..Len(headers) |-> IsStHeader(headers[k])])
  IN  [iatCol |-> IF iatFound = -1 THEN 0 ELSE iatFound,
       stCol |-> IF stFound = -1
                 THEN (IF 1 <= Len(headers) - 1 THEN 1 ELSE Len(headers) - 1)
                 ELSE stFound]

\* Lines 121-130: the loop over the data lines, from line index k (1-based).
RECURSIVE ParseRows(_, _, _)
ParseRows(lines, sel, k) ==
  IF k > Len(lines) THEN <<>>
  ELSE LET cols == SplitCells(lines[k])
           iat == CellValue(cols, sel.iatCol)
           st == CellValue(cols, sel.stCol)
       IN  IF /\ ~IsNaN(iat)
              /\ ~IsNaN(st)
              /\ ~FGt(Num(0), iat)
              /\ FGt(st, Num(0))
           THEN <<[interArrivalTime |-> iat.n, serviceTime |-> st.n]>>
                  \o ParseRows(lines, sel, k + 1)
           ELSE ParseRows(lines, sel, k + 1)

parseCSV(text) ==
  LET lines == SplitLines(Trim(text))
  IN  IF Len(lines) < 2 THEN <<>>
      ELSE ParseRows(lines, SelectColumns(lines[1]), 2)

\* The texts handed to parseCSV: a header line and up to MaxDataLines data
\* lines joined by "\n", and a few texts with other line structure.
HeaderLines ==
  {<<"i", "a", "t", ",", "s", "e", "r", "v", "i", "c", "e">>,
   <<"a", ";", "b">>,
   <<"S", "T", "\t", "I", "A", "T">>,
   <<"i", "a", "t", "_", "s", "t", ",", "s", "t", "_", "i", "a", "t">>,
   <<"x">>}

DataLines ==
  {<<"2", ",", "3">>,
   <<"4", ",", "1">>,
   <<"0", ";", "2">>,
   <<"x", ",", "1">>,
   <<"-", "1", ",", "2">>,
   <<"1", ",", "0">>,
   <<"2", "x", ",", "1">>,
   <<"3">>}

RECURSIVE JoinLines(_)
JoinLines(lines) ==
  IF Len(lines) = 1 THEN lines[1]
  ELSE lines[1] \o <<"\n">> \o JoinLines(Tail(lines))

OtherTexts ==
  {<<>>,
   <<" ", "\n">>,
   <<"i", "a", "t", ",", "s", "e", "r", "v", "i", "c", "e", "\r", "\n", "2", ",", "3", "\r", "\n", "4", ",", "1", "\r", "\n">>,
   <<"\n", "i", "a", "t", ",", "s", "e", "r", "v", "i", "c", "e", "\n", "1", "\t", "1">>}

CsvTexts ==
  OtherTexts \cup
  {JoinLines(<<h>> \o body) :
     h \in HeaderLines,
     body \in UNION {[1..n -> DataLines] : n \in 0..MaxDataLines}}

\* ------------------------------------------------------------------- state
VARIABLES
  pc,                \* "idle", "parsed", "random", "random_end", "dataset", "done"
  csvText,           \* argument of the last parseCSV call
  dataset,           \* DatasetRow[]: parseCSV's result / runSimulationFromDataset's input
  params,            \* SimulationParams of the running runSimulation call
  numServers,        \* server count of the running call
  currentTime,
  customerId,
  i,                 \* loop index of runSimulationFromDataset
  serverFinishTimes,
  customers,
  draws,             \* Math.random() calls made by the running call
  drawKinds,         \* what each of those calls was made for, in call order
  impl,              \* which copy of the aggregation produced result
  result,            \* the SimulationResult returned
  returned           \* per server count, the results the caller kept of runs
                     \* of the dataset it holds (<<>>: none yet)

vars == <<pc, csvText, dataset, params, numServers, currentTime, customerId, i,
          serverFinishTimes, customers, draws, drawKinds, impl, result,
          returned>>

locals == <<currentTime, customerId, i, serverFinishTimes, customers, draws,
            drawKinds>>

NoParams == [arrivalRate |-> 0, serviceRate |-> 0, numServers |-> 0, duration |-> 0]
NoneReturned == [c \in 1..MaxServers |-> <<>>]

\* SimulationParams handed to runSimulation.  duration 0 is the non-positive
\* duration the core does not reject; numServers is an integer >= 1.
ParamSets ==
  [arrivalRate : Rates, serviceRate : Rates,
   numServers : 1..MaxServers, duration : 0..MaxDuration]

\* DatasetRow values with interArrivalTime >= 0 and serviceTime > 0.
Rows == [interArrivalTime : 0..MaxIAT, serviceTime : 1..MaxST]

Datasets == UNION {[1..n -> Rows] : n \in 0..MaxRows}

Init ==
  /\ pc = "idle"
  /\ csvText = <<>>
  /\ dataset = <<>>
  /\ params = NoParams
  /\ numServers = 0
  /\ currentTime = 0
  /\ customerId = 0
  /\ i = 0
  /\ serverFinishTimes = <<>>
  /\ customers = <<>>
  /\ draws = 0
  /\ drawKinds = <<>>
  /\ impl = "none"
  /\ result = EmptyResult
  /\ returned = NoneReturned

\* ------------------------------------------------------------ runSimulation
\* Lines 47-54: destructure the parameters, allocate the locals.
CallRunSimulation ==
  /\ pc = "idle"
  /\ \E p \in ParamSets :
       /\ params' = p
       /\ numServers' = p.numServers
       /\ serverFinishTimes' = ZeroArray(p.numServers)
  /\ customers' = <<>>
  /\ currentTime' = 0
  /\ customerId' = 0
  /\ draws' = 0
  /\ drawKinds' = <<>>
  /\ impl' = "none"
  /\ result' = EmptyResult
  /\ pc' = "random"
  /\ UNCHANGED <<csvText, dataset, i, returned>>

\* Lines 56-93: one pass through the body of the while loop.
LoopIteration ==
  /\ pc = "random"
  /\ WhileCondition(currentTime, params.duration)
  /\ \E R1 \in UniformDraws :
       LET id == customerId + 1
           iat == exponentialRandom(params.arrivalRate, R1)
           interArrivalTime == FirstIsZero(id = 1, iat.value)
           now == currentTime + interArrivalTime
       IN  /\ customerId' = id
           /\ currentTime' = now
           /\ IF BeyondHorizon(now, params.duration)
              THEN \* line 64: break
                   /\ draws' = draws + 1
                   /\ drawKinds' = Append(drawKinds, "interArrival")
                   /\ pc' = "random_end"
                   /\ UNCHANGED <<serverFinishTimes, customers>>
              ELSE \E R2 \in UniformDraws :
                     LET st == exponentialRandom(params.serviceRate, R2)
                         s == Stepper(serverFinishTimes, now, st.value)
                     IN  /\ draws' = draws + 2
                         /\ drawKinds' = drawKinds \o <<"interArrival", "service">>
                         /\ serverFinishTimes' = s.serverFinishTimes
                         /\ customers' = Append(customers,
                              [id |-> id,
                               randomIAT |-> iat.random,
                               randomST |-> st.random,
                               interArrivalTime |->
                                 FirstIsZero(id = 1, interArrivalTime),
                               arrivalTime |-> now,
                               serviceTime |-> st.value,
                               waitTime |-> s.waitTime,
                               startServiceTime |-> s.startServiceTime,
                               endServiceTime |-> s.endServiceTime,
                               serverAssigned |-> s.serverIndex + 1])
                         /\ pc' = "random"
  /\ UNCHANGED <<csvText, dataset, params, numServers, i, impl, result, returned>>

\* Line 56: the loop condition fails on entry.
LoopExit ==
  /\ pc = "random"
  /\ ~WhileCondition(currentTime, params.duration)
  /\ pc' = "random_end"
  /\ UNCHANGED <<csvText, dataset, params, numServers, locals, impl, result, returned>>

\* Line 95: return computeResults(customers, numServers, duration, arrivalRate).
ReturnRunSimulation ==
  /\ pc = "random_end"
  /\ result' = computeResults(customers, numServers,
                              Num(params.duration), Num(params.arrivalRate))
  /\ impl' = "computeResults"
  /\ pc' = "done"
  /\ UNCHANGED <<csvText, dataset, params, numServers, locals, returned>>

\* part_000 lines 95-127: the same return, aggregated inline.
ReturnRunSimulationInline ==
  /\ pc = "random_end"
  /\ result' = computeResultsInline(customers, numServers,
                                    Num(params.duration), Num(params.arrivalRate))
  /\ impl' = "inline"
  /\ pc' = "done"
  /\ UNCHANGED <<csvText, dataset, params, numServers, locals, returned>>

\* ------------------------------------------------- runSimulationFromDataset
\* Lines 136-142, with the array of an earlier call of the same size reused.
StartDatasetSharedArray(ds, c) ==
  /\ dataset' = ds
  /\ numServers' = c
  /\ serverFinishTimes' =
       IF Len(serverFinishTimes) = c THEN serverFinishTimes ELSE ZeroArray(c)
  /\ customers' = <<>>
  /\ currentTime' = 0
  /\ i' = 0
  /\ draws' = 0
  /\ drawKinds' = <<>>
  /\ impl' = "none"
  /\ result' = EmptyResult
  /\ pc' = "dataset"
  /\ UNCHANGED <<params, customerId, returned>>

\* Lines 136-142.
StartDataset(ds, c) ==
  /\ dataset' = ds
  /\ numServers' = c
  /\ serverFinishTimes' = ZeroArray(c)
  /\ customers' = <<>>
  /\ currentTime' = 0
  /\ i' = 0
  /\ draws' = 0
  /\ drawKinds' = <<>>
  /\ impl' = "none"
  /\ result' = EmptyResult
  /\ pc' = "dataset"
  /\ UNCHANGED <<params, customerId, returned>>

CallRunSimulationFromDataset ==
  /\ pc = "idle"
  /\ \E ds \in Datasets, c \in 1..MaxServers : StartDataset(ds, c)
  /\ UNCHANGED csvText

\* Lines 145-170 with line 147 assigning instead of adding.
DatasetLoopBodyNoSum(loop, ds) ==
  LET row == ds[loop.i + 1]
      interArrivalTime == FirstIsZero(loop.i = 0, row.interArrivalTime)
      now == interArrivalTime
      s == Stepper(loop.serverFinishTimes, now, row.serviceTime)
  IN  [i |-> loop.i + 1,
       currentTime |-> now,
       serverFinishTimes |-> s.serverFinishTimes,
       customers |-> Append(loop.customers,
         [id |-> DatasetId(loop.i),
          randomIAT |-> 0,
          randomST |-> 0,
          interArrivalTime |-> interArrivalTime,
          arrivalTime |-> now,
          serviceTime |-> row.serviceTime,
          waitTime |-> s.waitTime,
          startServiceTime |-> s.startServiceTime,
          endServiceTime |-> s.endServiceTime,
          serverAssigned |-> s.serverIndex + 1])]

\* Lines 145-170 with the first row's inter-arrival time kept (line 146).
DatasetLoopBodyKeepsFirst(loop, ds) ==
  LET row == ds[loop.i + 1]
      interArrivalTime == row.interArrivalTime
      now == loop.currentTime + interArrivalTime
      s == Stepper(loop.serverFinishTimes, now, row.serviceTime)
  IN  [i |-> loop.i + 1,
       currentTime |-> now,
       serverFinishTimes |-> s.serverFinishTimes,
       customers |-> Append(loop.customers,
         [id |-> DatasetId(loop.i),
          randomIAT |-> 0,
          randomST |-> 0,
          interArrivalTime |-> interArrivalTime,
          arrivalTime |-> now,
          serviceTime |-> row.serviceTime,
          waitTime |-> s.waitTime,
          startServiceTime |-> s.startServiceTime,
          endServiceTime |-> s.endServiceTime,
          serverAssigned |-> s.serverIndex + 1])]

\* Lines 145-170: one pass of the body of the for loop over the loop's
\* variables i, currentTime, serverFinishTimes and customers.
DatasetLoopBody(loop, ds) ==
  LET row == ds[loop.i + 1]
      interArrivalTime == FirstIsZero(loop.i = 0, row.interArrivalTime)
      now == loop.currentTime + interArrivalTime
      s == Stepper(loop.serverFinishTimes, now, row.serviceTime)
  IN  [i |-> loop.i + 1,
       currentTime |-> now,
       serverFinishTimes |-> s.serverFinishTimes,
       customers |-> Append(loop.customers,
         [id |-> DatasetId(loop.i),
          randomIAT |-> 0,
          randomST |-> 0,
          interArrivalTime |-> interArrivalTime,
          arrivalTime |-> now,
          serviceTime |-> row.serviceTime,
          waitTime |-> s.waitTime,
          startServiceTime |-> s.startServiceTime,
          endServiceTime |-> s.endServiceTime,
          serverAssigned |-> s.serverIndex + 1])]

\* Lines 140-170: the for loop run from a state of its variables to its end.
RECURSIVE DatasetLoop(_, _)
DatasetLoop(loop, ds) ==
  IF ForCondition(loop.i, ds)
  THEN DatasetLoop(DatasetLoopBody(loop, ds), ds)
  ELSE loop

\* Lines 140-170: the customers of runSimulationFromDataset(ds, c).
DatasetCustomers(ds, c) ==
  DatasetLoop([i |-> 0,
               currentTime |-> 0,
               serverFinishTimes |-> ZeroArray(c),
               customers |-> <<>>], ds).customers

\* Lines 144-170: one pass through the body of the for loop.
DatasetIteration ==
  /\ pc = "dataset"
  /\ ForCondition(i, dataset)
  /\ \E loop \in {[i |-> i,
                    currentTime |-> currentTime,
                    serverFinishTimes |-> serverFinishTimes,
                    customers |-> customers]} :
     \E next \in {DatasetLoopBody(loop, dataset)} :
       /\ currentTime' = next.currentTime
       /\ serverFinishTimes' = next.serverFinishTimes
       /\ customers' = next.customers
       /\ i' = next.i
  /\ UNCHANGED <<pc, csvText, dataset, params, numServers, customerId, draws,
                 drawKinds, impl, result, returned>>

\* Line 172 with the time the last server comes free as the duration.
EffectiveDurationMakespan(cs) ==
  IF Len(cs) > 0
  THEN Num(MathMaxOf([k \in 1..Len(cs) |-> cs[k].endServiceTime]))
  ELSE Num(0)

\* Lines 172-176.
EffectiveDuration(cs) ==
  IF Len(cs) > 0 THEN Num(cs[Len(cs)].endServiceTime) ELSE Num(0)

\* Lines 173-174 with the mean taken over the inter-arrival times the loop
\* used (row 1 counted as 0).
EffectiveArrivalRateUsed(ds) ==
  LET avgIAT == FDiv(Num(SumIAT(SubSeq(ds, 2, Len(ds)))), Num(Len(ds)))
  IN  IF FGt(avgIAT, Num(0)) THEN FDiv(Num(1), avgIAT) ELSE Num(1)

\* Lines 173-174.
EffectiveArrivalRate(ds) ==
  LET avgIAT == FDiv(Num(SumIAT(ds)), Num(Len(ds)))
  IN  IF FGt(avgIAT, Num(0)) THEN FDiv(Num(1), avgIAT) ELSE Num(1)

ReturnRunSimulationFromDataset ==
  /\ pc = "dataset"
  /\ ~ForCondition(i, dataset)
  /\ result' = computeResults(customers, numServers,
                              EffectiveDuration(customers),
                              EffectiveArrivalRate(dataset))
  /\ impl' = "computeResults"
  /\ pc' = "done"
  /\ UNCHANGED <<csvText, dataset, params, numServers, locals, returned>>

\* ----------------------------------------------------------------- parsing
\* The caller parses an uploaded text (part_001 line 228) ...
CallParseCSV ==
  /\ pc = "idle"
  /\ \E text \in CsvTexts :
       /\ csvText' = text
       /\ dataset' = parseCSV(text)
  /\ pc' = "parsed"
  /\ UNCHANGED <<params, numServers, locals, impl, result, returned>>

\* ... and runs the parsed rows (part_001 line 242).
CallRunSimulationFromParsed ==
  /\ pc = "parsed"
  /\ \E c \in 1..MaxServers : StartDataset(dataset, c)
  /\ UNCHANGED csvText

\* ----------------------------------------------------------------- caller
\* The caller takes the result; nothing of the call survives it.
Return ==
  /\ pc = "done"
  /\ pc' = "idle"
  /\ csvText' = <<>>
  /\ dataset' = <<>>
  /\ UNCHANGED returned
  /\ params' = NoParams
  /\ numServers' = 0
  /\ currentTime' = 0
  /\ customerId' = 0
  /\ i' = 0
  /\ serverFinishTimes' = <<>>
  /\ customers' = <<>>
  /\ draws' = 0
  /\ drawKinds' = <<>>
  /\ impl' = "none"
  /\ result' = EmptyResult

Next ==
  \/ CallRunSimulation
  \/ LoopIteration
  \/ LoopExit
  \/ ReturnRunSimulation
  \/ ReturnRunSimulationInline
  \/ CallRunSimulationFromDataset
  \/ DatasetIteration
  \/ ReturnRunSimulationFromDataset
  \/ CallParseCSV
  \/ CallRunSimulationFromParsed
  \/ Return

Spec == Init /\ [][Next]_vars

\* ------------------------------------------------------------ repeated runs
\* A caller that holds one dataset (part_001 lines 217, 242), runs it again
\* and again with a server count of its choice, and keeps each result.
InitHeld ==
  /\ pc = "idle"
  /\ csvText = <<>>
  /\ dataset \in Datasets
  /\ params = NoParams
  /\ numServers = 0
  /\ currentTime = 0
  /\ customerId = 0
  /\ i = 0
  /\ serverFinishTimes = <<>>
  /\ customers = <<>>
  /\ draws = 0
  /\ drawKinds = <<>>
  /\ impl = "none"
  /\ result = EmptyResult
  /\ returned = NoneReturned

CallRunSimulationFromHeld ==
  /\ pc = "idle"
  /\ \E c \in 1..MaxServers : StartDataset(dataset, c)
  /\ UNCHANGED csvText

\* setResultA(...): the caller keeps the result.  What the finished call
\* left behind stays as it is: the next call allocates its own.
KeepResult ==
  /\ pc = "done"
  /\ returned' = [returned EXCEPT ![numServers] = <<result>>]
  /\ pc' = "idle"
  /\ UNCHANGED <<csvText, dataset, params, numServers, locals, impl, result>>

NextHeld ==
  \/ CallRunSimulationFromHeld
  \/ DatasetIteration
  \/ ReturnRunSimulationFromDataset
  \/ KeepResult

SpecHeld == InitHeld /\ [][NextHeld]_vars

\* -------------------------------------------------------------- run to end
\* A call runs synchronously (no suspension points): a loop that can take a
\* step takes it.  Whether the caller calls again is left open.
LoopStep ==
  \/ LoopIteration
  \/ LoopExit
  \/ DatasetIteration

SpecLive == Init /\ [][Next]_vars /\ WF_vars(LoopStep)

\* ================================================================= claims
RandomRun == params # NoParams
DatasetRun == params = NoParams /\ pc \in {"dataset", "done"}

\* The customer sequence as it stands, and as returned once the call is done.
Sequences2Check == {customers} \cup (IF pc = "done" THEN {result.customers} ELSE {})

\* C1: in both paths the ids of the customers, read in sequence order, are
\* exactly 1, 2, ..., N: no gap, no repeat, also after an entity was discarded
\* at the horizon.
C1_IdsContiguous ==
  \A cs \in Sequences2Check : \A k \in 1..Len(cs) : cs[k].id = k

\* A random-draw run that returned two or more customers after discarding the
\* entity that crossed the horizon.
C1_Witness ==
  /\ pc = "done"
  /\ RandomRun
  /\ Len(result.customers) >= 2
  /\ customerId = Len(result.customers) + 1

\* C2: every customer record has waitTime >= 0, waitTime = startServiceTime -
\* arrivalTime and endServiceTime = startServiceTime + serviceTime.
C2_TimingFields ==
  \A cs \in Sequences2Check : \A k \in 1..Len(cs) :
    /\ cs[k].waitTime >= 0
    /\ cs[k].waitTime = cs[k].startServiceTime - cs[k].arrivalTime
    /\ cs[k].endServiceTime = cs[k].startServiceTime + cs[k].serviceTime

\* A finished run in which one customer waited and a later one was served on
\* arrival.
C2_Witness ==
  /\ pc = "done"
  /\ \E k \in 1..Len(result.customers) :
       /\ result.customers[k].waitTime > 0
       /\ \E j \in (k + 1)..Len(result.customers) :
            result.customers[j].waitTime = 0

\* C3: arrivalTime is non-decreasing along the customer sequence, and the first
\* customer's interArrivalTime and arrivalTime are 0 whatever was drawn or
\* parsed for it.
C3_ArrivalOrder ==
  \A cs \in Sequences2Check :
    /\ \A k \in 2..Len(cs) : cs[k - 1].arrivalTime <= cs[k].arrivalTime
    /\ Len(cs) >= 1 => cs[1].interArrivalTime = 0 /\ cs[1].arrivalTime = 0

\* A dataset run whose first row carries a positive inter-arrival time.
C3_Witness ==
  /\ pc = "done"
  /\ DatasetRun
  /\ Len(result.customers) >= 2
  /\ dataset[1].interArrivalTime > 0
  /\ result.customers[2].arrivalTime > 0

\* C4: for one dataset, the avgWaitTime returned with more servers is less
\* than or equal to the avgWaitTime returned with fewer servers.
C4_MoreServersWaitNoLonger ==
  \A c1, c2 \in 1..MaxServers :
    (c1 < c2 /\ returned[c1] # <<>> /\ returned[c2] # <<>>)
      => FLeq(returned[c2][1].avgWaitTime, returned[c1][1].avgWaitTime)

\* The caller holds results of the same dataset for one and for two servers,
\* customers waited in both runs, and less so with two servers.
C4_Witness ==
  /\ returned[1] # <<>>
  /\ returned[2] # <<>>
  /\ FGt(returned[2][1].avgWaitTime, Num(0))
  /\ FGt(returned[1][1].avgWaitTime, returned[2][1].avgWaitTime)

InvalidParameter(p) ==
  \/ p.arrivalRate <= 0
  \/ p.serviceRate <= 0
  \/ p.numServers <= 0
  \/ p.duration <= 0

C6_InvalidParametersRejected ==
  (RandomRun /\ InvalidParameter(params)) => pc # "done"

\* C7: a dataset run with the same dataset and the same numServers as an
\* earlier run returns the same customer records and the same summary values,
\* whatever ran in between.
C7_SameInputsSameResult ==
  (pc = "done" /\ returned[numServers] # <<>>)
    => result = returned[numServers][1]

\* The dataset is run a second time with two servers after a run with one
\* server in between, and customers waited.
C7_Witness ==
  /\ pc = "done"
  /\ numServers = 2
  /\ returned[2] # <<>>
  /\ returned[1] # <<>>
  /\ Len(serverFinishTimes) = 2
  /\ result.maxWaitTime > 0

\* C8: header "iat,service" with rows "2,3" and "4,1", run with 1 server, gives
\* customer 1 arrivalTime 0, waitTime 0, endServiceTime 3 and customer 2
\* arrivalTime 4, startServiceTime 4, waitTime 0, endServiceTime 5.
RoundTripText ==
  <<"i", "a", "t", ",", "s", "e", "r", "v", "i", "c", "e", "\n", "2", ",", "3", "\n", "4", ",", "1">>

C8_RoundTrip ==
  /\ (pc = "parsed" /\ csvText = RoundTripText) =>
       dataset = <<[interArrivalTime |-> 2, serviceTime |-> 3],
                   [interArrivalTime |-> 4, serviceTime |-> 1]>>
  /\ (pc = "done" /\ csvText = RoundTripText /\ numServers = 1) =>
       /\ Len(result.customers) = 2
       /\ result.customers[1].arrivalTime = 0
       /\ result.customers[1].waitTime = 0
       /\ result.customers[1].endServiceTime = 3
       /\ result.customers[2].arrivalTime = 4
       /\ result.customers[2].startServiceTime = 4
       /\ result.customers[2].waitTime = 0
       /\ result.customers[2].endServiceTime = 5

\* The run of that text with one server has returned.
C8_Witness ==
  /\ pc = "done"
  /\ csvText = RoundTripText
  /\ numServers = 1
  /\ result.totalCustomers = 2

\* C9: parseCSV returns exactly the data rows, in order, whose two selected
\* cells are both numbers with inter-arrival >= 0 and service time > 0; a row
\* with a non-numeric selected cell is dropped; fewer than two lines give the
\* empty sequence.
\* A cell is numeric when, whitespace around it aside, it is an optional sign
\* followed by digits and nothing else.
IsNumericCell(s) ==
  LET t == Trim(s)
      body == IF t # <<>> /\ t[1] \in {"-", "+"} THEN Tail(t) ELSE t
  IN  /\ body # <<>>
      /\ \A k \in 1..Len(body) : IsDigit(body[k])

RowAccepted(cols, sel) ==
  /\ sel.iatCol + 1 <= Len(cols)
  /\ sel.stCol + 1 <= Len(cols)
  /\ IsNumericCell(cols[sel.iatCol + 1])
  /\ IsNumericCell(cols[sel.stCol + 1])
  /\ parseFloat(cols[sel.iatCol + 1]).n >= 0
  /\ parseFloat(cols[sel.stCol + 1]).n > 0

ExpectedRows(text) ==
  LET lines == SplitLines(Trim(text))
      sel == SelectColumns(lines[1])
      kept == SelectSeq([k \in 1..(Len(lines) - 1) |-> SplitCells(lines[k + 1])],
                        LAMBDA cols : RowAccepted(cols, sel))
  IN  IF Len(lines) < 2 THEN <<>>
      ELSE [k \in 1..Len(kept) |->
              [interArrivalTime |-> parseFloat(kept[k][sel.iatCol + 1]).n,
               serviceTime |-> parseFloat(kept[k][sel.stCol + 1]).n]]

C9_OnlyNumericRowsKept ==
  pc = "parsed" => dataset = ExpectedRows(csvText)

C12_EmptyRunAllZero ==
  (/\ pc = "done"
   /\ \/ RandomRun /\ params.duration <= 0
      \/ DatasetRun /\ dataset = <<>>)
  => /\ customers = <<>>
     /\ result.customers = <<>>
     /\ result.avgWaitTime = Num(0) /\ ~IsNaN(result.avgWaitTime)
     /\ result.maxWaitTime = 0
     /\ result.avgQueueLength = Num(0) /\ ~IsNaN(result.avgQueueLength)
     /\ result.serverUtilization = Num(0) /\ ~IsNaN(result.serverUtilization)
     /\ result.totalCustomers = 0
     /\ result.customersServed = 0

\* A dataset run on no rows, for two servers, has returned.
C12_Witness ==
  /\ pc = "done"
  /\ DatasetRun
  /\ dataset = <<>>
  /\ numServers = 2
  /\ result.totalCustomers = 0

\* A step of either loop has pushed one more record.
StepTaken == Len(customers') = Len(customers) + 1

\* C13: every step gives the entity to a server whose next-available time is
\* the minimum over all servers, the lowest-indexed one among those tied at
\* the minimum; serverAssigned is its 1-based index, within 1..numServers.
C13_EarliestLowestServer ==
  [][StepTaken =>
       LET chosen == customers'[Len(customers')].serverAssigned
       IN  /\ chosen \in 1..numServers
           /\ \A k \in 1..numServers :
                serverFinishTimes[chosen] <= serverFinishTimes[k]
           /\ \A k \in 1..(chosen - 1) :
                serverFinishTimes[k] > serverFinishTimes[chosen]]_vars

\* Both servers came free at the same instant and the third entity went to
\* server 1.
C13_Witness ==
  /\ numServers = 2
  /\ Len(customers) >= 3
  /\ customers[1].serverAssigned = 1
  /\ customers[2].serverAssigned = 2
  /\ customers[1].endServiceTime = customers[2].endServiceTime
  /\ customers[3].arrivalTime <= customers[1].endServiceTime
  /\ customers[3].serverAssigned = 1

\* C14: right after a step the chosen server's next-available time is the
\* endServiceTime of the entity just assigned and no other server's time has
\* changed; before the first step of a run every server is at 0.
C14_OnlyChosenServerUpdated ==
  /\ [](pc \in {"random", "dataset"} /\ customers = <<>> =>
          serverFinishTimes = [k \in 1..numServers |-> 0])
  /\ [][StepTaken =>
          LET last == customers'[Len(customers')]
          IN  /\ serverFinishTimes'[last.serverAssigned] = last.endServiceTime
              /\ \A k \in 1..numServers :
                   k # last.serverAssigned =>
                     serverFinishTimes'[k] = serverFinishTimes[k]
              /\ Len(serverFinishTimes') = numServers]_vars

\* The second entity took server 2 while server 1 stayed busy until later.
C14_Witness ==
  /\ numServers = 2
  /\ Len(customers) = 2
  /\ customers[2].serverAssigned = 2
  /\ serverFinishTimes[1] = customers[1].endServiceTime
  /\ serverFinishTimes[2] = customers[2].endServiceTime
  /\ serverFinishTimes[1] > serverFinishTimes[2]

\* The samples a random run consumed, as dataset rows: row k holds the
\* inter-arrival sample and the service sample drawn for customer k (for
\* customer 1 the sample as drawn, before it is forced to 0).
ConsumedSamples ==
  [k \in 1..Len(customers) |->
     [interArrivalTime |->
        exponentialRandom(params.arrivalRate, customers[k].randomIAT).value,
      serviceTime |-> customers[k].serviceTime]]

\* The fields of a record that do not depend on the path that produced it.
PathFreeFields(c) ==
  [id |-> c.id,
   interArrivalTime |-> c.interArrivalTime,
   arrivalTime |-> c.arrivalTime,
   serviceTime |-> c.serviceTime,
   waitTime |-> c.waitTime,
   startServiceTime |-> c.startServiceTime,
   endServiceTime |-> c.endServiceTime,
   serverAssigned |-> c.serverAssigned]

\* C15: with the same number of servers and the same sequence of
\* (inter-arrival, service) pairs, all arriving before the horizon, the random
\* path and the dataset path produce records equal in id, interArrivalTime,
\* arrivalTime, serviceTime, waitTime, startServiceTime, endServiceTime and
\* serverAssigned.
C15_PathsAgree ==
  RandomRun =>
    LET fromDataset == DatasetCustomers(ConsumedSamples, numServers)
    IN  /\ Len(fromDataset) = Len(customers)
        /\ \A k \in 1..Len(customers) :
             PathFreeFields(fromDataset[k]) = PathFreeFields(customers[k])

\* A random run on two servers has ended with three customers, one of whom
\* waited.
C15_Witness ==
  /\ RandomRun
  /\ pc = "random_end"
  /\ numServers = 2
  /\ Len(customers) = 3
  /\ \E k \in 1..3 : customers[k].waitTime > 0

\* C16: the dataset path turns every row into exactly one customer, in row
\* order: customer k has row k's serviceTime and arrives at the sum of the
\* inter-arrival times of rows 2..k; the summary's totalCustomers and
\* customersServed are both the number of rows.
C16_OneCustomerPerRow ==
  DatasetRun =>
    /\ Len(customers) = i
    /\ \A k \in 1..Len(customers) :
         /\ customers[k].id = k
         /\ customers[k].serviceTime = dataset[k].serviceTime
         /\ customers[k].arrivalTime = SumIAT(SubSeq(dataset, 2, k))
    /\ pc = "done" =>
         /\ result.customers = customers
         /\ Len(result.customers) = Len(dataset)
         /\ result.totalCustomers = Len(dataset)
         /\ result.customersServed = Len(dataset)

\* A dataset run over three rows with positive inter-arrival times has
\* returned.
C16_Witness ==
  /\ DatasetRun
  /\ pc = "done"
  /\ Len(dataset) = 3
  /\ dataset[1].interArrivalTime > 0
  /\ dataset[2].interArrivalTime > 0
  /\ dataset[3].interArrivalTime > 0
  /\ result.customersServed = 3

\* C17: the duration the dataset path hands to the aggregator is the
\* endServiceTime of the last customer (0 when there is none): the returned
\* utilization is the total service time over numServers times that value,
\* as a percentage capped at 100.
C17_DatasetDurationIsLastEnd ==
  (DatasetRun /\ pc = "done") =>
    LET duration == IF Len(customers) > 0
                    THEN customers[Len(customers)].endServiceTime
                    ELSE 0
        busy == SumService(customers)
        u == result.serverUtilization
    IN  /\ EffectiveDuration(customers) = Num(duration)
        /\ u.d # 0
        /\ IF Len(customers) = 0 THEN u.n = 0
           ELSE IF busy >= numServers * duration THEN u = Num(100)
           ELSE u.n * numServers * duration = 100 * busy * u.d

\* The last customer of a returned dataset run ended service before an
\* earlier one did.
C17_Witness ==
  /\ DatasetRun
  /\ pc = "done"
  /\ Len(customers) >= 2
  /\ \E k \in 1..(Len(customers) - 1) :
       customers[k].endServiceTime > customers[Len(customers)].endServiceTime

\* C18: the arrival rate of a dataset run is the reciprocal of the mean of
\* the rows' inter-arrival times, row 1's value as given included, or 1 when
\* that mean is 0; avgQueueLength is that rate times avgWaitTime, so with
\* all inter-arrival times 0 it equals avgWaitTime.
C18_DatasetRateFromAllRows ==
  (DatasetRun /\ pc = "done" /\ dataset # <<>>) =>
    LET total == SumIAT(dataset)
        rows == Len(dataset)
        q == result.avgQueueLength
        w == result.avgWaitTime
    IN  /\ q.d # 0
        /\ w.d # 0
        /\ IF total = 0 THEN q = w
           ELSE q.n * w.d * total = rows * w.n * q.d

\* A returned dataset run whose first row has a positive inter-arrival time,
\* whose customers waited and whose rate is not 1.
C18_Witness ==
  /\ DatasetRun
  /\ pc = "done"
  /\ dataset # <<>>
  /\ dataset[1].interArrivalTime > 0
  /\ result.avgQueueLength.n > 0
  /\ result.avgQueueLength # result.avgWaitTime

\* C19: for a non-empty customer sequence avgWaitTime is the sum of the
\* waitTimes over their number and maxWaitTime is the largest waitTime: some
\* customer's waitTime, with 0 <= avgWaitTime <= maxWaitTime.
C19_MeanAndMaxWait ==
  (pc = "done" /\ customers # <<>>) =>
    LET a == result.avgWaitTime
        m == result.maxWaitTime
        count == Len(customers)
    IN  /\ a.d > 0
        /\ a.n * count = SumWait(customers) * a.d
        /\ \E k \in 1..count : customers[k].waitTime = m
        /\ \A k \in 1..count : customers[k].waitTime <= m
        /\ 0 <= a.n
        /\ a.n <= m * a.d

\* A returned run in which one customer waited and another did not, so that
\* the mean lies strictly between 0 and the maximum.
C19_Witness ==
  /\ pc = "done"
  /\ Len(customers) >= 2
  /\ result.avgWaitTime.n > 0
  /\ result.avgWaitTime.n < result.maxWaitTime * result.avgWaitTime.d
  /\ result.avgWaitTime.d > 1

\* The 0-based indices of the header cells that hold a keyword.
MatchingCells(headers, iat) ==
  {k - 1 : k \in {j \in 1..Len(headers) :
                    IF iat THEN IsIatHeader(headers[j])
                    ELSE IsStHeader(headers[j])}}

LeastOf(S) == CHOOSE m \in S : \A k \in S : m <= k

\* C20: parseCSV reads the inter-arrival time from the first header cell that
\* holds an inter-arrival keyword and the service time from the first header
\* cell that holds a service keyword; with no such cell the inter-arrival
\* column is index 0 and the service column index 1, or the only column when
\* the header has a single cell.
C20_ColumnSelection ==
  LET lines == SplitLines(Trim(csvText))
  IN  (pc = "parsed" /\ Len(lines) >= 2) =>
        LET headers == SplitCells(toLowerCase(lines[1]))
            iatCells == MatchingCells(headers, TRUE)
            stCells == MatchingCells(headers, FALSE)
            iatCol == IF iatCells # {} THEN LeastOf(iatCells) ELSE 0
            stCol == IF stCells # {} THEN LeastOf(stCells)
                     ELSE IF Len(headers) = 1 THEN 0 ELSE 1
            sel == [iatCol |-> iatCol, stCol |-> stCol]
        IN  /\ SelectColumns(lines[1]) = sel
            /\ dataset = ParseRows(lines, sel, 2)

\* A text whose two header cells both hold both keywords was parsed, and both
\* values of its row came from the first cell.
C20_Witness ==
  /\ pc = "parsed"
  /\ csvText = <<"i", "a", "t", "_", "s", "t", ",", "s", "t", "_", "i", "a", "t",
                 "\n", "2", ",", "3">>
  /\ dataset = <<[interArrivalTime |-> 2, serviceTime |-> 2]>>

\* C21: along the customer sequence of either path startServiceTime never
\* decreases: a customer who arrived later never starts service before one
\* who arrived earlier.
C21_NoOvertaking ==
  \A cs \in Sequences2Check :
    \A k \in 1..(Len(cs) - 1) :
      /\ cs[k].arrivalTime <= cs[k + 1].arrivalTime
      /\ cs[k].startServiceTime <= cs[k + 1].startServiceTime

\* On two servers the third customer arrived while both were busy and started
\* after the second one had started.
C21_Witness ==
  /\ numServers = 2
  /\ Len(customers) = 3
  /\ customers[3].waitTime > 0
  /\ customers[2].startServiceTime < customers[3].startServiceTime
  /\ customers[1].startServiceTime = customers[2].startServiceTime

\* C22: a server serves one customer at a time: of two customers of a run
\* with the same serverAssigned, the later one starts service no earlier than
\* the earlier one's endServiceTime.
C22_OneCustomerPerServer ==
  \A cs \in Sequences2Check :
    \A k \in 1..Len(cs) : \A j \in (k + 1)..Len(cs) :
      cs[k].serverAssigned = cs[j].serverAssigned =>
        cs[j].startServiceTime >= cs[k].endServiceTime

\* On two servers, server 1 took the first and the third customer, the third
\* starting exactly when the first left, after waiting.
C22_Witness ==
  /\ numServers = 2
  /\ Len(customers) = 3
  /\ customers[1].serverAssigned = 1
  /\ customers[3].serverAssigned = 1
  /\ customers[3].waitTime > 0
  /\ customers[3].startServiceTime = customers[1].endServiceTime

\* C23: a customer waits only when every server is busy at its arrival: a
\* positive waitTime means every server's next-available time, as it stood
\* when the customer was assigned, was after the arrivalTime; and waitTime is
\* max(0, earliest next-available time - arrivalTime).
C23_WorkConserving ==
  [][StepTaken =>
       LET last == customers'[Len(customers')]
           earliest == CHOOSE m \in {serverFinishTimes[k] : k \in 1..numServers} :
                         \A k \in 1..numServers : m <= serverFinishTimes[k]
       IN  /\ last.waitTime > 0 =>
                \A k \in 1..numServers :
                  serverFinishTimes[k] > last.arrivalTime
           /\ last.waitTime =
                IF earliest - last.arrivalTime > 0
                THEN earliest - last.arrivalTime
                ELSE 0]_vars

\* On two servers one customer found server 2 free although server 1 was
\* busy, and did not wait; the next one found both busy and waited.
C23_Witness ==
  /\ numServers = 2
  /\ Len(customers) = 3
  /\ customers[2].serverAssigned = 2
  /\ customers[2].arrivalTime < customers[1].endServiceTime
  /\ customers[2].waitTime = 0
  /\ customers[3].waitTime > 0

\* C24: over the steps of a run (service times > 0) no server's
\* next-available time ever decreases, and the earliest next-available time
\* over all servers does not decrease from one step to the next.
C24_ServerTimesMonotone ==
  [][StepTaken =>
       /\ \A k \in 1..numServers :
            serverFinishTimes'[k] >= serverFinishTimes[k]
       /\ \A k \in 1..numServers :
            \E j \in 1..numServers :
              serverFinishTimes[j] <= serverFinishTimes'[k]
       /\ \E k \in 1..numServers :
            serverFinishTimes'[k] > serverFinishTimes[k]]_vars

\* After three steps on two servers both servers have been used, server 1
\* twice, and server 2 is the one that comes free first.
C24_Witness ==
  /\ numServers = 2
  /\ Len(customers) = 3
  /\ customers[3].serverAssigned = 1
  /\ serverFinishTimes[1] > serverFinishTimes[2]
  /\ serverFinishTimes[2] > 0

\* C25: in the dataset path, for every numServers >= 1, the duration used
\* for the utilization is at least the endServiceTime of every customer of
\* the run, so that the total service time is at most numServers * duration
\* (utilization at most 100 before the cap).
C25_DurationCoversRun ==
  (DatasetRun /\ pc = "done" /\ numServers >= 1) =>
    /\ \A k \in 1..Len(customers) :
         FLeq(Num(customers[k].endServiceTime), EffectiveDuration(customers))
    /\ FLeq(Num(SumService(customers)),
            FMul(Num(numServers), EffectiveDuration(customers)))

====
